---- MODULE Spec2Model ----
(***************************************************************************)
(* Model of main.py: the ProjectConsolidator worker (directory walk,       *)
(* filtering, sequential write pass, callbacks) and the App handlers that  *)
(* start it and receive its notifications.                                 *)
(*                                                                         *)
(* Text values (file names, suffixes, paths, file contents) are TLA+       *)
(* strings handled as character sequences (Len, SubSeq, \o).               *)
(*                                                                         *)
(* Spec     the App over the scenario trees: clicks on the generate        *)
(*          button, the worker threads they start, injected read and       *)
(*          output faults                                                  *)
(* FairSpec Spec with started threads scheduled until they end             *)
(* WalkSpec the first pass (lines 59-73) over every tree within MaxFiles   *)
(*          and MaxDepth                                                   *)
(***************************************************************************)
EXTENDS Integers, Sequences, FiniteSets, TLC

(***************************************************************************)
(* Bounds of the model.                                                    *)
(***************************************************************************)
MaxRuns  == 2    \* number of times the generate button may start a worker
MaxFiles == 2    \* files in an enumerated tree (WalkSpec)
MaxDepth == 3    \* path length (directories + file name) in an enumerated tree

Runs == 1..MaxRuns

(***************************************************************************)
(* String helpers: Python str methods used by the source.                  *)
(***************************************************************************)
Ch(s, i) == SubSeq(s, i, i)

\* str.endswith(ext)
EndsWith(s, ext) ==
    /\ Len(ext) <= Len(s)
    /\ SubSeq(s, Len(s) - Len(ext) + 1, Len(s)) = ext

\* x in lst, lst a Python list
InList(x, lst) == \E i \in 1..Len(lst) : lst[i] = x

\* any(filename.endswith(ext) for ext in include_ext)
AnyEndsWith(filename, include_ext) ==
    \E i \in 1..Len(include_ext) : EndsWith(filename, include_ext[i])

\* str.count('\n')
RECURSIVE CountNewlines(_)
CountNewlines(content) ==
    IF Len(content) = 0 THEN 0
    ELSE (IF Ch(content, 1) = "\n" THEN 1 ELSE 0)
         + CountNewlines(SubSeq(content, 2, Len(content)))

\* variant of LineCount: the line breaks alone
LineCountNoLast(content) == CountNewlines(content)

\* lines = content.count('\n') + 1
LineCount(content) == CountNewlines(content) + 1

\* str.rfind(c): 1-based index of the last occurrence of c, 0 if none
RECURSIVE RFindFrom(_, _, _)
RFindFrom(s, c, i) ==
    IF i = 0 THEN 0
    ELSE IF Ch(s, i) = c THEN i ELSE RFindFrom(s, c, i - 1)

RFind(s, c) == RFindFrom(s, c, Len(s))

\* str.lstrip(c)
RECURSIVE LStrip(_, _)
LStrip(s, c) ==
    IF Len(s) > 0 /\ Ch(s, 1) = c THEN LStrip(SubSeq(s, 2, Len(s)), c) ELSE s

\* str.rstrip(c)
RECURSIVE RStrip(_, _)
RStrip(s, c) ==
    IF Len(s) > 0 /\ Ch(s, Len(s)) = c THEN RStrip(SubSeq(s, 1, Len(s) - 1), c) ELSE s

\* str.strip() (blanks)
Strip(s) == RStrip(LStrip(s, " "), " ")

\* str.split(','): the pieces between commas, in order
RECURSIVE SplitFrom(_, _, _)
SplitFrom(s, i, piece) ==
    IF i > Len(s) THEN <<piece>>
    ELSE IF Ch(s, i) = "," THEN <<piece>> \o SplitFrom(s, i + 1, "")
    ELSE SplitFrom(s, i + 1, piece \o Ch(s, i))

SplitComma(s) == SplitFrom(s, 1, "")

\* [item.strip() for item in entry.split(',') if item.strip()]
RECURSIVE StripNonEmpty(_)
StripNonEmpty(items) ==
    IF Len(items) = 0 THEN <<>>
    ELSE (IF Strip(Head(items)) # "" THEN <<Strip(Head(items))>> ELSE <<>>)
         \o StripNonEmpty(Tail(items))

ParseEntry(text) == StripNonEmpty(SplitComma(text))

(***************************************************************************)
(* os.path helpers (POSIX).                                                *)
(***************************************************************************)
\* os.path.join(a, b) for a relative b
PathJoin(a, b) ==
    IF a = "" \/ EndsWith(a, "/") THEN a \o b ELSE a \o "/" \o b

\* os.path.basename(p)
Basename(p) == SubSeq(p, RFind(p, "/") + 1, Len(p))

\* os.path.relpath(file_path, root) for a file_path below root
Relpath(file_path, root) ==
    LET r == RStrip(root, "/") IN SubSeq(file_path, Len(r) + 2, Len(file_path))

\* does some character of p in positions from..to-1 differ from '.'
HasNonDot(p, from, to) == \E k \in from..(to - 1) : Ch(p, k) # "."

\* os.path.splitext(p)[1]
SplitextExt(p) ==
    LET sepIndex == RFind(p, "/")
        dotIndex == RFind(p, ".")
    IN  IF dotIndex > sepIndex /\ HasNonDot(p, sepIndex + 1, dotIndex)
        THEN SubSeq(p, dotIndex, Len(p))
        ELSE ""

\* variant of Lang: the leading dot is kept
LangWithDot(file_path) == SplitextExt(file_path)

\* lang = os.path.splitext(file_path)[1].lstrip('.')
Lang(file_path) == LStrip(SplitextExt(file_path), ".")

(***************************************************************************)
(* The file system under the root: a sequence of files, each a sequence of *)
(* path segments (directory names, then the file name).  The order of the  *)
(* sequence is the order in which directory listings return entries.       *)
(***************************************************************************)
IsPrefix(d, p) == Len(d) <= Len(p) /\ SubSeq(p, 1, Len(d)) = d

\* os.scandir(dirpath): the entries of directory d, in listing order
RECURSIVE ScandirFrom(_, _, _, _)
ScandirFrom(t, d, i, acc) ==
    IF i > Len(t) THEN acc
    ELSE LET p == t[i] IN
         IF IsPrefix(d, p) /\ Len(p) > Len(d)
         THEN LET e == [name |-> p[Len(d) + 1], is_dir |-> Len(p) > Len(d) + 1]
              IN  IF \E k \in 1..Len(acc) : acc[k] = e
                  THEN ScandirFrom(t, d, i + 1, acc)
                  ELSE ScandirFrom(t, d, i + 1, Append(acc, e))
         ELSE ScandirFrom(t, d, i + 1, acc)

Scandir(t, d) == ScandirFrom(t, d, 1, <<>>)

\* variant of KeepDir: every subdirectory is descended into (no pruning)
KeepDirNoPrune(e, exclude_patterns) == e.is_dir

\* line 66: a subdirectory is kept for descent unless its name is an exclude pattern
KeepDir(e, exclude_patterns) == e.is_dir /\ ~InList(e.name, exclude_patterns)

\* line 69: a file is a candidate when its name ends with an include suffix
\* and is not itself an exclude pattern
SelectFile(e, include_ext, exclude_patterns) ==
    /\ ~e.is_dir
    /\ AnyEndsWith(e.name, include_ext)
    /\ ~InList(e.name, exclude_patterns)

\* lines 64-71: os.walk(root_dir, topdown=True) with pruning; the result is
\* files_to_process_list for the subtree at directory d (path string dirpath)
RECURSIVE Walk(_, _, _, _, _)
RECURSIVE WalkDirs(_, _, _, _, _, _)
Walk(t, d, dirpath, include_ext, exclude_patterns) ==
    LET entries == Scandir(t, d)
        Kept(e) == KeepDir(e, exclude_patterns)
        Sel(e)  == SelectFile(e, include_ext, exclude_patterns)
        dirnames == SelectSeq(entries, Kept)
        selected == SelectSeq(entries, Sel)
    IN  [i \in 1..Len(selected) |-> PathJoin(dirpath, selected[i].name)]
        \o WalkDirs(t, d, dirpath, dirnames, include_ext, exclude_patterns)

WalkDirs(t, d, dirpath, dirnames, include_ext, exclude_patterns) ==
    IF Len(dirnames) = 0 THEN <<>>
    ELSE Walk(t, Append(d, Head(dirnames).name),
              PathJoin(dirpath, Head(dirnames).name),
              include_ext, exclude_patterns)
         \o WalkDirs(t, d, dirpath, Tail(dirnames), include_ext, exclude_patterns)

(***************************************************************************)
(* Number formatting used in status messages.                              *)
(***************************************************************************)
RECURSIVE IntToStr(_)
IntToStr(n) ==
    IF n < 10 THEN Ch("0123456789", n + 1)
    ELSE IntToStr(n \div 10) \o Ch("0123456789", (n % 10) + 1)

\* "=" * k
RECURSIVE Repeat(_, _)
Repeat(s, k) == IF k = 0 THEN "" ELSE s \o Repeat(s, k - 1)

SeparatorWidth == 80
Separator == Repeat("=", SeparatorWidth)

(***************************************************************************)
(* Inputs of the model.                                                    *)
(***************************************************************************)
RootPath == "/home/proj"          \* the one existing directory

\* os.path.isdir
IsDir(p) == p = RootPath

ProjectDirs    == {"", "/nodir", RootPath}
OutputFiles    == {"", "/tmp/out.txt"}
IncludeEntries == {".py", ".md, "}
ExcludeEntries == {"build, .git"}
Contents       == {"", "a\nb\n", "print(1)\n"}
ReadErrorMsg   == "Permission denied"

\* the tree of the spec's first scenario
TreeApp == << <<"src", "app.py">>, <<"build", "out.tmp">>, <<".git", "config">> >>
\* two candidates, one file with an included suffix below an excluded directory
TreeTwo == << <<"a.py">>, <<"build", "gen", "b.py">>, <<"src", "c.py">> >>

ScenarioTrees == {TreeApp, TreeTwo}

(***************************************************************************)
(* State.                                                                  *)
(***************************************************************************)
VARIABLES
    tree,               \* files under RootPath
    outfile,            \* content of the output file: sequence of entries
    outOpen,            \* workers holding the output file open
    worker,             \* per started consolidator: its fields and locals
    nthreads,           \* number of consolidator threads started so far
    generate_button,    \* state of the generate button
    copy_button,
    open_button,
    progress_bar,       \* value last set: <<numerator, denominator>>
    status_label,
    summary_textbox,
    output_file_entry,  \* text of the output-file entry
    messagebox          \* last error dialog shown

vars == <<tree, outfile, outOpen, worker, nthreads, generate_button,
          copy_button, open_button, progress_bar, status_label,
          summary_textbox, output_file_entry, messagebox>>

uiVars == <<generate_button, copy_button, open_button, progress_bar,
            status_label, summary_textbox, output_file_entry, messagebox>>

NoSummary == [status |-> "None"]

\* a consolidator that has not been constructed, or whose thread has ended
NoWorker(pc) ==
    [pc |-> pc, root_dir |-> "", output_file |-> "",
     include_ext |-> <<>>, exclude_patterns |-> <<>>,
     total_files_to_process |-> 0, files_to_process_list |-> <<>>,
     position |-> 0, processed_files |-> 0, total_lines |-> 0,
     summary |-> NoSummary,
     calls |-> <<>>, reads |-> <<>>, fault |-> "none", nfinished |-> 0]

AppInit ==
    /\ outfile = <<>>
    /\ outOpen = {}
    /\ worker = [r \in Runs |-> NoWorker("idle")]
    /\ nthreads = 0
    /\ generate_button = "normal"
    /\ copy_button = "disabled"
    /\ open_button = "disabled"
    /\ progress_bar = <<0, 1>>
    /\ status_label = "Ready."
    /\ summary_textbox = ""
    /\ output_file_entry = ""
    /\ messagebox = ""

Init ==
    /\ tree \in ScenarioTrees
    /\ AppInit

(***************************************************************************)
(* Output file entries and their text.                                     *)
(***************************************************************************)
HeaderEntry(project_name) ==
    [kind |-> "header", path |-> project_name, lang |-> "", content |-> ""]
BlockEntry(relative_path, lang, content) ==
    [kind |-> "block", path |-> relative_path, lang |-> lang, content |-> content]
\* the part of a block already written when one of its writes fails
PartialEntry(relative_path) ==
    [kind |-> "partial", path |-> relative_path, lang |-> "", content |-> ""]
ErrorEntry(relative_path, msg) ==
    [kind |-> "error", path |-> relative_path, lang |-> "", content |-> msg]

\* the three-backquote fence of lines 99 and 101; a backquote cannot be
\* written in a string of this language, so a quote stands for each one
Fence == "'''"

\* the characters the entry puts in the file (lines 81, 93-101, 104)
EntryText(e) ==
    CASE e.kind = "header" ->
           "--- Project Context for: " \o e.path \o " ---\n\n"
      [] e.kind = "block" ->
           Separator \o "\n" \o "### FILE: " \o e.path \o "\n" \o Separator \o "\n"
           \o Fence \o e.lang \o "\n" \o e.content \o "\n" \o Fence \o "\n\n"
      [] e.kind = "partial" -> Separator \o "\n"
      [] e.kind = "error" ->
           "--- ERROR reading " \o e.path \o ": " \o e.content \o " ---\n\n"

\* os.path.getsize(output_file)
RECURSIVE GetSize(_)
GetSize(f) == IF Len(f) = 0 THEN 0 ELSE Len(EntryText(Head(f))) + GetSize(Tail(f))

BytesPerKb == 1024

\* variant of TrueDiv: the operands swapped
TrueDivSwapped(a, b) == [error |-> a = 0, value |-> <<b, a>>]

\* processed_files / total_files_to_process: the quotient as a fraction, or
\* the ZeroDivisionError Python raises
TrueDiv(a, b) == [error |-> b = 0, value |-> <<a, b>>]

(***************************************************************************)
(* Callbacks of the App (lines 246-250), invoked from the worker.          *)
(***************************************************************************)
StatusCall(msg)      == [cb |-> "status", arg |-> msg]
ProgressCall(value)  == [cb |-> "progress", arg |-> value]
FinishedCall(summ)   == [cb |-> "finished", arg |-> summ]

ErrorSummary(msg) == [status |-> "Error", message |-> msg]
SuccessSummary(files, lines, size) ==
    [status |-> "Success", files_processed |-> files, total_lines |-> lines,
     output_size_kb |-> <<size, BytesPerKb>>]

(***************************************************************************)
(* App.start_generation (lines 213-244), run by a click on the enabled     *)
(* generate button with the entries' current texts.                        *)
(***************************************************************************)
\* variant of LaunchRun: the generate button is left enabled
LaunchRunButtonEnabled(project_dir, output_file, include_text, exclude_text) ==
    /\ nthreads < MaxRuns
    /\ copy_button' = "disabled"
    /\ open_button' = "disabled"
    /\ progress_bar' = <<0, 1>>
    /\ summary_textbox' = ""
    /\ nthreads' = nthreads + 1
    /\ worker' = [worker EXCEPT ![nthreads + 1] =
                    [NoWorker("start") EXCEPT
                        !.root_dir = project_dir,
                        !.output_file = output_file,
                        !.include_ext = ParseEntry(include_text),
                        !.exclude_patterns = ParseEntry(exclude_text)]]
    /\ UNCHANGED <<generate_button, status_label, messagebox>>

\* lines 224-244: disable the buttons, reset the displays, construct the
\* consolidator and start its thread
LaunchRun(project_dir, output_file, include_text, exclude_text) ==
    /\ nthreads < MaxRuns
    /\ generate_button' = "disabled"
    /\ copy_button' = "disabled"
    /\ open_button' = "disabled"
    /\ progress_bar' = <<0, 1>>
    /\ summary_textbox' = ""
    /\ nthreads' = nthreads + 1
    /\ worker' = [worker EXCEPT ![nthreads + 1] =
                    [NoWorker("start") EXCEPT
                        !.root_dir = project_dir,
                        !.output_file = output_file,
                        !.include_ext = ParseEntry(include_text),
                        !.exclude_patterns = ParseEntry(exclude_text)]]
    /\ UNCHANGED <<status_label, messagebox>>

StartGeneration ==
    /\ generate_button = "normal"
    /\ \E project_dir \in ProjectDirs, output_file \in OutputFiles,
          include_text \in IncludeEntries, exclude_text \in ExcludeEntries :
        /\ output_file_entry' = output_file
        /\ IF project_dir = "" \/ ~IsDir(project_dir)
           THEN /\ messagebox' = "Please select a valid project directory."
                /\ UNCHANGED <<worker, nthreads, generate_button, copy_button,
                               open_button, progress_bar, status_label,
                               summary_textbox>>
           ELSE IF output_file = ""
           THEN /\ messagebox' = "Please select an output file path."
                /\ UNCHANGED <<worker, nthreads, generate_button, copy_button,
                               open_button, progress_bar, status_label,
                               summary_textbox>>
           ELSE LaunchRun(project_dir, output_file, include_text, exclude_text)
    /\ UNCHANGED <<tree, outfile, outOpen>>

(***************************************************************************)
(* ProjectConsolidator._process_files (lines 58-121), one worker thread.   *)
(***************************************************************************)
\* lines 59-73: first pass.  os.walk ignores listing errors, so an
\* unreadable or vanished root yields no directory at all.
ScanTree(r) ==
    /\ worker[r].pc = "start"
    /\ \E readable \in BOOLEAN :
        LET w == worker[r]
            files == IF readable
                     THEN Walk(tree, <<>>, w.root_dir, w.include_ext, w.exclude_patterns)
                     ELSE <<>>
            found == "Found " \o IntToStr(Len(files)) \o " files to process."
        IN  /\ worker' = [worker EXCEPT ![r] =
                    [w EXCEPT !.pc = "open",
                              !.files_to_process_list = files,
                              !.total_files_to_process = Len(files),
                              !.fault = IF readable THEN "none" ELSE "root",
                              !.calls = w.calls \o <<StatusCall("Starting scan..."),
                                                     StatusCall(found)>>]]
            /\ status_label' = found
    /\ UNCHANGED <<tree, outfile, outOpen, nthreads, generate_button, copy_button,
                   open_button, progress_bar, summary_textbox, output_file_entry,
                   messagebox>>

\* lines 78-81: open the output for writing and write the header line
OpenOutput(r) ==
    /\ worker[r].pc = "open"
    /\ \E outcome \in {"ok", "open_error", "write_error"} :
        LET w == worker[r] IN
        CASE outcome = "ok" ->
               /\ outfile' = <<HeaderEntry(Basename(w.root_dir))>>
               /\ outOpen' = outOpen \cup {r}
               /\ worker' = [worker EXCEPT ![r].pc = "loop"]
          [] outcome = "open_error" ->
               /\ UNCHANGED <<outfile, outOpen>>
               /\ worker' = [worker EXCEPT ![r] =
                    [w EXCEPT !.pc = "finish", !.fault = "open",
                              !.summary = ErrorSummary("cannot open output")]]
          [] outcome = "write_error" ->
               /\ outfile' = <<>>
               /\ UNCHANGED outOpen
               /\ worker' = [worker EXCEPT ![r] =
                    [w EXCEPT !.pc = "finish", !.fault = "write",
                              !.summary = ErrorSummary("cannot write output")]]
    /\ UNCHANGED <<tree, nthreads, uiVars>>

\* variant of WithExit: the file is opened without a with-block and stays open
WithExitLeak(handles, r) == handles

\* line 79: leaving the with-block, normally or by an exception, closes the file
WithExit(handles, r) == handles \ {r}

\* what reading one candidate can give: its text, or an exception
ReadOutcomes ==
    {[ok |-> TRUE, content |-> c] : c \in Contents}
    \cup {[ok |-> FALSE, content |-> ReadErrorMsg]}

\* what writing one candidate's entry can give: every write succeeds; a write
\* of the block fails and the handler's write succeeds; the handler's write fails
WriteOutcomes == {"ok", "block_error", "all_error"}
WriteErrorMsg == "No space left on device"

\* variant of Escapes: no per-file except clause, a failed read leaves the loop
EscapesOnReadError(rd, wr) == ~rd.ok \/ wr = "all_error"

\* variant of CountProcessed: the increment sits inside the try, after the read
CountProcessedReadOnly(processed_files, rd) ==
    processed_files + (IF rd.ok THEN 1 ELSE 0)

\* lines 87, 103-104: an exception of the iteration leaves the per-file try
\* only when the handler's own write raises; a failed read never does
Escapes(rd, wr) == wr = "all_error"

\* line 106: processed_files += 1, after the try, whatever the read gave
CountProcessed(processed_files, rd) == processed_files + 1

\* lines 83-107: one iteration of the write pass
ProcessFile(r) ==
    /\ worker[r].pc = "loop"
    /\ worker[r].position < Len(worker[r].files_to_process_list)
    /\ \E rd \in ReadOutcomes, wr \in WriteOutcomes :
        /\ (wr = "block_error") => rd.ok
        /\ LET w == worker[r]
               file_path == w.files_to_process_list[w.position + 1]
               relative_path == Relpath(file_path, w.root_dir)
               msg == "Processing: " \o relative_path
               lines == IF rd.ok THEN LineCount(rd.content) ELSE 0
               written ==
                   CASE rd.ok /\ wr = "ok" ->
                          <<BlockEntry(relative_path, Lang(file_path), rd.content)>>
                     [] rd.ok /\ wr = "block_error" ->
                          <<PartialEntry(relative_path),
                            ErrorEntry(relative_path, WriteErrorMsg)>>
                     [] rd.ok /\ wr = "all_error" -> <<PartialEntry(relative_path)>>
                     [] ~rd.ok /\ wr = "ok" ->
                          <<ErrorEntry(relative_path, rd.content)>>
                     [] ~rd.ok /\ wr = "all_error" -> <<>>
               processed == CountProcessed(w.processed_files, rd)
               quotient == TrueDiv(processed, w.total_files_to_process)
               seen == [w EXCEPT !.position = w.position + 1,
                                 !.total_lines = w.total_lines + lines,
                                 !.reads = Append(w.reads,
                                            [ok |-> rd.ok, content |-> rd.content,
                                             write |-> wr]),
                                 !.fault = IF wr = "all_error" THEN "write"
                                           ELSE w.fault,
                                 !.calls = Append(w.calls, StatusCall(msg))]
           IN  /\ outfile' = outfile \o written
               /\ status_label' = msg
               /\ IF Escapes(rd, wr)
                  THEN /\ worker' = [worker EXCEPT ![r] =
                            [seen EXCEPT !.pc = "finish",
                                         !.summary = ErrorSummary(WriteErrorMsg)]]
                       /\ outOpen' = WithExit(outOpen, r)
                       /\ UNCHANGED progress_bar
                  ELSE IF quotient.error
                  THEN /\ worker' = [worker EXCEPT ![r] =
                            [seen EXCEPT !.pc = "finish",
                                         !.processed_files = processed,
                                         !.summary = ErrorSummary("division by zero")]]
                       /\ outOpen' = WithExit(outOpen, r)
                       /\ UNCHANGED progress_bar
                  ELSE /\ worker' = [worker EXCEPT ![r] =
                            [seen EXCEPT !.processed_files = processed,
                                         !.calls = Append(seen.calls,
                                                     ProgressCall(quotient.value))]]
                       /\ progress_bar' = quotient.value
                       /\ UNCHANGED outOpen
    /\ UNCHANGED <<tree, nthreads, generate_button, copy_button, open_button,
                   summary_textbox, output_file_entry, messagebox>>

\* variant of CloseOutput: a last progress report after the loop
CloseOutputFinalProgress(r) ==
    /\ worker[r].pc = "loop"
    /\ worker[r].position = Len(worker[r].files_to_process_list)
    /\ LET w == worker[r]
           quotient == TrueDiv(w.processed_files, w.total_files_to_process)
       IN  /\ outOpen' = outOpen \ {r}
           /\ IF quotient.error
              THEN /\ worker' = [worker EXCEPT ![r] =
                        [w EXCEPT !.pc = "finish",
                                  !.summary = ErrorSummary("division by zero")]]
                   /\ UNCHANGED progress_bar
              ELSE /\ worker' = [worker EXCEPT ![r] =
                        [w EXCEPT !.pc = "finish",
                                  !.calls = Append(w.calls, ProgressCall(quotient.value)),
                                  !.summary = SuccessSummary(w.processed_files,
                                                  w.total_lines, GetSize(outfile))]]
                   /\ progress_bar' = quotient.value
    /\ UNCHANGED <<tree, outfile, nthreads, generate_button, copy_button,
                   open_button, status_label, summary_textbox,
                   output_file_entry, messagebox>>

\* lines 108-115: the candidates are exhausted; the with-block closes the
\* output, its size is measured and the Success summary is built
CloseOutput(r) ==
    /\ worker[r].pc = "loop"
    /\ worker[r].position = Len(worker[r].files_to_process_list)
    /\ \E outcome \in {"ok", "close_error", "getsize_error"} :
        LET w == worker[r] IN
        /\ outOpen' = WithExit(outOpen, r)
        /\ worker' = [worker EXCEPT ![r] =
             CASE outcome = "ok" ->
                    [w EXCEPT !.pc = "finish",
                              !.summary = SuccessSummary(w.processed_files,
                                              w.total_lines, GetSize(outfile))]
               [] outcome = "close_error" ->
                    [w EXCEPT !.pc = "finish", !.fault = "close",
                              !.summary = ErrorSummary(WriteErrorMsg)]
               [] outcome = "getsize_error" ->
                    [w EXCEPT !.pc = "finish", !.fault = "getsize",
                              !.summary = ErrorSummary("No such file or directory")]]
    /\ UNCHANGED <<tree, outfile, nthreads, uiVars>>

\* f"{n:,}"
FormatThousands(n) ==
    IF n < 1000 THEN IntToStr(n)
    ELSE LET low == n % 1000
         IN  IntToStr(n \div 1000) \o ","
             \o (IF low < 10 THEN "00" ELSE IF low < 100 THEN "0" ELSE "")
             \o IntToStr(low)

\* f"{size / 1024:.2f}": the quotient rounded to hundredths, ties to even
FormatKb(size) ==
    LET q == (size * 100) \div BytesPerKb
        rem == (size * 100) % BytesPerKb
        half == BytesPerKb \div 2
        h == IF rem > half \/ (rem = half /\ q % 2 = 1) THEN q + 1 ELSE q
        cents == h % 100
    IN  IntToStr(h \div 100) \o "."
        \o (IF cents < 10 THEN "0" ELSE "") \o IntToStr(cents)

\* App.on_generation_complete (lines 252-274)
OnGenerationComplete(summary) ==
    /\ generate_button' = "normal"
    /\ IF summary.status = "Success"
       THEN /\ status_label' = "Success! Project context saved to "
                               \o Basename(output_file_entry)
            /\ summary_textbox' =
                 "--- Generation Complete ---\n\n"
                 \o "Files Processed: " \o IntToStr(summary.files_processed) \o "\n"
                 \o "Total Lines of Code: " \o FormatThousands(summary.total_lines) \o "\n"
                 \o "Output File Size: " \o FormatKb(summary.output_size_kb[1]) \o " KB\n\n"
                 \o "Output saved to:\n" \o output_file_entry
            /\ copy_button' = "normal"
            /\ open_button' = "normal"
       ELSE /\ status_label' = "Error: " \o summary.message
            /\ summary_textbox' = "An error occurred:\n\n" \o summary.message
            /\ UNCHANGED <<copy_button, open_button>>
    /\ UNCHANGED <<progress_bar, output_file_entry, messagebox>>

\* lines 120-121: the finished callback is invoked with the summary, and the
\* thread ends; its locals are gone, the count of its finished calls is kept.
\* The handler App.on_generation_complete is taken as one step.
FinishedCallback(r) ==
    /\ worker[r].pc = "finish"
    /\ OnGenerationComplete(worker[r].summary)
    /\ worker' = [worker EXCEPT ![r] =
                    [NoWorker("done") EXCEPT !.nfinished = worker[r].nfinished + 1]]
    /\ UNCHANGED <<tree, outfile, outOpen, nthreads>>

(***************************************************************************)
(* The program: the App with the workers it starts.                        *)
(***************************************************************************)
Next ==
    \/ StartGeneration
    \/ \E r \in Runs : ScanTree(r)
    \/ \E r \in Runs : OpenOutput(r)
    \/ \E r \in Runs : ProcessFile(r)
    \/ \E r \in Runs : CloseOutput(r)
    \/ \E r \in Runs : FinishedCallback(r)

Spec == Init /\ [][Next]_vars

\* a started thread keeps running: each of its steps ends, and the scheduler
\* runs it again
FairSpec ==
    /\ Spec
    /\ \A r \in Runs :
         WF_vars(ScanTree(r) \/ OpenOutput(r) \/ ProcessFile(r)
                 \/ CloseOutput(r) \/ FinishedCallback(r))

(***************************************************************************)
(* The first pass over enumerated trees: every tree of at most MaxFiles    *)
(* files and MaxDepth path segments over TreeNames, every configuration of *)
(* WalkIncludes x WalkExcludes, in a consolidator whose thread has just    *)
(* been started.                                                           *)
(***************************************************************************)
TreeNames    == {"a.py", "build"}
WalkIncludes == {<<".py">>, <<".py", "ld">>}
WalkExcludes == {<<>>, <<"build">>, <<"build", "a.py">>}

TreePaths == UNION {[1..n -> TreeNames] : n \in 1..MaxDepth}

\* no file twice, and no file that is also a directory
WellFormedTree(t) ==
    \A i, j \in 1..Len(t) : i # j => ~IsPrefix(t[i], t[j])

BoundedTrees ==
    {t \in UNION {[1..n -> TreePaths] : n \in 0..MaxFiles} : WellFormedTree(t)}

WalkInit ==
    /\ tree \in BoundedTrees
    /\ outfile = <<>>
    /\ outOpen = {}
    /\ nthreads = 1
    /\ \E inc \in WalkIncludes, exc \in WalkExcludes :
         worker = [r \in Runs |->
                     IF r = 1
                     THEN [NoWorker("start") EXCEPT
                             !.root_dir = RootPath,
                             !.output_file = "/tmp/out.txt",
                             !.include_ext = inc,
                             !.exclude_patterns = exc]
                     ELSE NoWorker("idle")]
    /\ generate_button = "disabled"
    /\ copy_button = "disabled"
    /\ open_button = "disabled"
    /\ progress_bar = <<0, 1>>
    /\ status_label = "Ready."
    /\ summary_textbox = ""
    /\ output_file_entry = "/tmp/out.txt"
    /\ messagebox = ""

WalkNext == \E r \in Runs : ScanTree(r)

WalkSpec == WalkInit /\ [][WalkNext]_vars

(***************************************************************************)
(* Vocabulary of the properties.                                           *)
(***************************************************************************)
\* the thread of run r has been started and has not yet delivered its summary
Started(r) == worker[r].pc \in {"start", "open", "loop", "finish"}

\* the progress values run r has reported so far, in order
ProgressValues(r) ==
    LET IsProgress(c) == c.cb = "progress"
        pc == SelectSeq(worker[r].calls, IsProgress)
    IN  [i \in 1..Len(pc) |-> pc[i].arg]

\* a <= b for fractions with positive denominators
FracLeq(a, b) == a[1] * b[2] <= b[1] * a[2]

\* name ends with suf: some tail of name is suf
HasSuffix(name, suf) ==
    \E k \in 0..Len(name) : SubSeq(name, k + 1, Len(name)) = suf

\* the path string of a tree file below the root
RECURSIVE SegmentsPath(_)
SegmentsPath(p) ==
    IF Len(p) = 0 THEN RootPath
    ELSE SegmentsPath(SubSeq(p, 1, Len(p) - 1)) \o "/" \o p[Len(p)]

\* the files of the tree that qualify: included suffix, name not an exclude
\* pattern, no directory above them named as an exclude pattern
Qualifies(p, inc, exc) ==
    /\ \E i \in 1..Len(inc) : HasSuffix(p[Len(p)], inc[i])
    /\ \A k \in 1..Len(p) : \A i \in 1..Len(exc) : p[k] # exc[i]

QualifyingFiles(t, inc, exc) ==
    {SegmentsPath(t[i]) : i \in {j \in 1..Len(t) : Qualifies(t[j], inc, exc)}}

\* number of line-break characters of a text
LineBreaks(content) ==
    Cardinality({i \in 1..Len(content) : SubSeq(content, i, i) = "\n"})

RECURSIVE ExpectedLines(_)
ExpectedLines(reads) ==
    IF Len(reads) = 0 THEN 0
    ELSE (IF Head(reads).ok THEN LineBreaks(Head(reads).content) + 1 ELSE 0)
         + ExpectedLines(Tail(reads))

\* the output faults the environment injected into run r
OutputFault(r) ==
    \/ worker[r].fault \in {"open", "write", "close", "getsize"}
    \/ \E i \in 1..Len(worker[r].reads) : worker[r].reads[i].write # "ok"

AllWritesOk(r) ==
    \A i \in 1..Len(worker[r].reads) : worker[r].reads[i].write = "ok"

NumReadErrors(r) ==
    Cardinality({i \in 1..Len(worker[r].reads) : ~worker[r].reads[i].ok})

Blocks(f) == LET IsBlock(e) == e.kind = "block" IN SelectSeq(f, IsBlock)

(***************************************************************************)
(* C1. After the first pass of a run over a readable tree, the candidate   *)
(* list holds, each once, exactly the files of the tree whose name ends    *)
(* with an include suffix, is not an exclude pattern, and that lie below   *)
(* no directory named as an exclude pattern; nothing below such a          *)
(* directory is a candidate, at any depth.                                 *)
(***************************************************************************)
C1_SelectionIsExact ==
    \A r \in Runs :
        (worker[r].pc = "open" /\ worker[r].fault = "none") =>
            LET w == worker[r]
                list == w.files_to_process_list
                chosen == {list[i] : i \in 1..Len(list)}
            IN  /\ chosen = QualifyingFiles(tree, w.include_ext, w.exclude_patterns)
                /\ Cardinality(chosen) = Len(list)
                /\ w.total_files_to_process = Len(list)
                /\ \A i \in 1..Len(tree) :
                       (\E k \in 1..(Len(tree[i]) - 1) :
                            InList(tree[i][k], w.exclude_patterns))
                       => SegmentsPath(tree[i]) \notin chosen

\* a file with an included suffix two levels below an excluded directory is
\* left out while another file is selected
C1_Witness ==
    \E r \in Runs :
        /\ worker[r].pc = "open"
        /\ worker[r].fault = "none"
        /\ Len(worker[r].files_to_process_list) = 1
        /\ \E i \in 1..Len(tree) :
              /\ Len(tree[i]) = 3
              /\ InList(tree[i][1], worker[r].exclude_patterns)
              /\ ~InList(tree[i][3], worker[r].exclude_patterns)
              /\ AnyEndsWith(tree[i][3], worker[r].include_ext)

(***************************************************************************)
(* C2. In every run the finished callback is invoked exactly once: never   *)
(* before the thread reaches its end, once when it does, always            *)
(* eventually; at that moment the run holds no open output file; and after *)
(* it the run makes no further callback (its record no longer changes).    *)
(***************************************************************************)
C2_FinishedState ==
    \A r \in Runs :
        /\ worker[r].nfinished <= 1
        /\ Started(r) => worker[r].nfinished = 0
        /\ worker[r].pc = "done" => (worker[r].nfinished = 1 /\ r \notin outOpen)

C2_FinishedStep ==
    \A r \in Runs :
        /\ worker'[r].nfinished # worker[r].nfinished =>
              /\ worker[r].pc = "finish"
              /\ worker[r].summary.status \in {"Success", "Error"}
              /\ r \notin outOpen
              /\ r \notin outOpen'
        /\ worker[r].pc = "done" => worker'[r] = worker[r]

C2_FinishedOnce ==
    /\ []C2_FinishedState
    /\ [][C2_FinishedStep]_vars
    /\ \A r \in Runs : (worker[r].pc = "start") ~> (worker[r].pc = "done")

\* a run that wrote file entries has delivered its summary and is over
C2_Witness ==
    \E r \in Runs :
        /\ worker[r].pc = "done"
        /\ worker[r].nfinished = 1
        /\ Len(outfile) > 1
        /\ outOpen = {}

(***************************************************************************)
(* C3. When the output can be written, read failures do not abort the run: *)
(* the run ends in Success and the output holds, after the header, one     *)
(* entry per candidate in candidate order: the file's block when it was    *)
(* read, an inline error annotation when its read failed.                  *)
(***************************************************************************)
C3_ReadFailureIsolated ==
    \A r \in Runs :
        (worker[r].pc = "finish" /\ worker[r].fault = "none" /\ AllWritesOk(r)) =>
            LET w == worker[r]
                list == w.files_to_process_list
            IN  /\ w.summary.status = "Success"
                /\ Len(w.reads) = Len(list)
                /\ Len(outfile) = Len(list) + 1
                /\ \A i \in 1..Len(list) :
                     outfile[i + 1] =
                        IF w.reads[i].ok
                        THEN [kind |-> "block",
                              path |-> Relpath(list[i], w.root_dir),
                              lang |-> Lang(list[i]),
                              content |-> w.reads[i].content]
                        ELSE [kind |-> "error",
                              path |-> Relpath(list[i], w.root_dir),
                              lang |-> "",
                              content |-> w.reads[i].content]

\* the first candidate's read failed, the second got its block, Success
C3_Witness ==
    \E r \in Runs :
        /\ worker[r].pc = "finish"
        /\ worker[r].summary.status = "Success"
        /\ Len(worker[r].reads) = 2
        /\ ~worker[r].reads[1].ok
        /\ worker[r].reads[2].ok
        /\ Len(outfile) = 3
        /\ outfile[2].kind = "error"
        /\ outfile[3].kind = "block"

(***************************************************************************)
(* C4 as stated. In a Success summary, files processed counts only the     *)
(* candidates whose read succeeded, while every candidate, failed or not,  *)
(* advances the progress fraction by one over the candidate count.         *)
(***************************************************************************)
C4_FailedReadNotCounted ==
    \A r \in Runs :
        (worker[r].pc = "finish" /\ worker[r].summary.status = "Success") =>
            /\ worker[r].summary.files_processed
                 = Len(worker[r].reads) - NumReadErrors(r)
            /\ ProgressValues(r) =
                 [i \in 1..Len(worker[r].reads) |->
                    <<i, worker[r].total_files_to_process>>]

(***************************************************************************)
(* C4 amended. In a Success summary, files processed counts every          *)
(* candidate, the ones whose read failed included; a failed read adds      *)
(* nothing to the total line count; and every candidate advances the       *)
(* progress fraction by one over the candidate count.                      *)
(***************************************************************************)
C4_FailedReadCounted ==
    \A r \in Runs :
        (worker[r].pc = "finish" /\ worker[r].summary.status = "Success") =>
            /\ worker[r].summary.files_processed = Len(worker[r].reads)
            /\ worker[r].summary.files_processed = worker[r].total_files_to_process
            /\ worker[r].summary.total_lines = ExpectedLines(worker[r].reads)
            /\ ProgressValues(r) =
                 [i \in 1..Len(worker[r].reads) |->
                    <<i, worker[r].total_files_to_process>>]

\* Success with two candidates, one of which could not be read
C4_Witness ==
    \E r \in Runs :
        /\ worker[r].pc = "finish"
        /\ worker[r].summary.status = "Success"
        /\ Len(worker[r].reads) = 2
        /\ NumReadErrors(r) = 1
        /\ worker[r].summary.files_processed = 2

(***************************************************************************)
(* C5. The progress values of a run are fractions in [0,1], never          *)
(* decreasing, and when there is at least one candidate the last one       *)
(* before a Success summary is 1.                                          *)
(***************************************************************************)
C5_ProgressMonotone ==
    \A r \in Runs :
        LET pv == ProgressValues(r) IN
        /\ \A i \in 1..Len(pv) :
              pv[i][2] > 0 /\ 0 <= pv[i][1] /\ pv[i][1] <= pv[i][2]
        /\ \A i, j \in 1..Len(pv) : i < j => FracLeq(pv[i], pv[j])
        /\ (/\ worker[r].pc = "finish"
            /\ worker[r].summary.status = "Success"
            /\ worker[r].total_files_to_process > 0)
           => (Len(pv) > 0 /\ pv[Len(pv)][1] = pv[Len(pv)][2])

\* a Success after the two values 1/2 and 2/2
C5_Witness ==
    \E r \in Runs :
        /\ worker[r].pc = "finish"
        /\ worker[r].summary.status = "Success"
        /\ ProgressValues(r) = << <<1, 2>>, <<2, 2>> >>

(***************************************************************************)
(* C6. A run without candidates whose output can be written ends in        *)
(* Success with files processed = 0 and total lines = 0; the output holds  *)
(* the project header only; no progress value is computed, so no quotient  *)
(* 0/0 and no division fault.                                              *)
(***************************************************************************)
C6_NoCandidates ==
    \A r \in Runs :
        (/\ worker[r].pc = "finish"
         /\ Len(worker[r].files_to_process_list) = 0
         /\ ~OutputFault(r)) =>
            /\ worker[r].summary.status = "Success"
            /\ worker[r].summary.files_processed = 0
            /\ worker[r].summary.total_lines = 0
            /\ outfile = <<[kind |-> "header", path |-> Basename(worker[r].root_dir),
                            lang |-> "", content |-> ""]>>
            /\ ProgressValues(r) = <<>>
            /\ \A i \in 1..Len(worker[r].calls) : worker[r].calls[i].cb = "status"

\* the tree is readable and none of its files has the suffix .md
C6_Witness ==
    \E r \in Runs :
        /\ worker[r].pc = "finish"
        /\ worker[r].include_ext = <<".md">>
        /\ worker[r].fault = "none"
        /\ worker[r].total_files_to_process = 0
        /\ worker[r].summary.status = "Success"
        /\ Len(outfile) = 1

\* the run of the first scenario: its tree, its lists, the file read with
\* its stated content, no fault
ScenarioRun(r) ==
    /\ tree = TreeApp
    /\ worker[r].pc = "finish"
    /\ worker[r].include_ext = <<".py">>
    /\ worker[r].exclude_patterns = <<"build", ".git">>
    /\ worker[r].fault = "none"
    /\ \A i \in 1..Len(worker[r].reads) :
          worker[r].reads[i] = [ok |-> TRUE, content |-> "print(1)\n", write |-> "ok"]

ScenarioOutcome(r, lines) ==
    /\ worker[r].summary.status = "Success"
    /\ Blocks(outfile) = <<[kind |-> "block", path |-> "src/app.py",
                            lang |-> "py", content |-> "print(1)\n"]>>
    /\ Len(outfile) = 2
    /\ worker[r].summary.files_processed = 1
    /\ worker[r].summary.total_lines = lines

(***************************************************************************)
(* C7 as stated. The scenario run (src/app.py holding "print(1)\n",        *)
(* build/out.tmp, .git/config; include .py; exclude build, .git) ends in   *)
(* Success with exactly one block, src/app.py fenced py, files processed   *)
(* = 1 and total lines = 1.                                                *)
(***************************************************************************)
C7_ScenarioOneLine == \A r \in Runs : ScenarioRun(r) => ScenarioOutcome(r, 1)

(***************************************************************************)
(* C7 amended. The same scenario run ends in Success with exactly one      *)
(* block, src/app.py fenced py, files processed = 1 and total lines = 2    *)
(* (one line break, plus one).                                             *)
(***************************************************************************)
C7_ScenarioTwoLines == \A r \in Runs : ScenarioRun(r) => ScenarioOutcome(r, 2)

C7_Witness ==
    \E r \in Runs :
        /\ ScenarioRun(r)
        /\ Len(worker[r].reads) = 1
        /\ worker[r].summary.status = "Success"

(***************************************************************************)
(* C8. The total line count is the sum, over the candidates read so far,   *)
(* of (line breaks of the content + 1) for each one that was read, and the *)
(* Success summary reports that sum; a single empty file gives 1, a single *)
(* file holding "a\nb\n" gives 3.                                          *)
(***************************************************************************)
C8_LineCount ==
    \A r \in Runs :
        LET w == worker[r] IN
        /\ w.total_lines = ExpectedLines(w.reads)
        /\ (w.pc = "finish" /\ w.summary.status = "Success") =>
              w.summary.total_lines = ExpectedLines(w.reads)
        /\ (Len(w.reads) = 1 /\ w.reads[1].ok /\ w.reads[1].content = "") =>
              w.total_lines = 1
        /\ (Len(w.reads) = 1 /\ w.reads[1].ok /\ w.reads[1].content = "a\nb\n") =>
              w.total_lines = 3

\* an empty file then a file holding "a\nb\n": 1 + 3
C8_Witness ==
    \E r \in Runs :
        /\ worker[r].pc = "finish"
        /\ worker[r].summary.status = "Success"
        /\ Len(worker[r].reads) = 2
        /\ worker[r].reads[1].ok /\ worker[r].reads[1].content = ""
        /\ worker[r].reads[2].ok /\ worker[r].reads[2].content = "a\nb\n"
        /\ worker[r].summary.total_lines = 4

(***************************************************************************)
(* C9. Every run ends with a Success or an Error summary; a run-level      *)
(* failure (root directory unreadable or vanished during the traversal,    *)
(* output that cannot be opened or written) ends it with an Error summary  *)
(* carrying a message; and only such failures give an Error summary.       *)
(***************************************************************************)
C9_RunLevelFailureIsError ==
    \A r \in Runs :
        worker[r].pc = "finish" =>
            /\ worker[r].summary.status \in {"Success", "Error"}
            /\ (worker[r].fault # "none") =>
                  (worker[r].summary.status = "Error"
                   /\ worker[r].summary.message # "")
            /\ (worker[r].summary.status = "Error") =>
                  (worker[r].fault # "none")

(***************************************************************************)
(* C10. At most one worker is consolidating at any time and at most one    *)
(* holds the output open; while one is, the generate button is disabled;   *)
(* a thread is started only by a click on the enabled button, which        *)
(* disables it; a click rejected by validation starts no thread and leaves *)
(* the button enabled; and a disabled button is eventually re-enabled.     *)
(***************************************************************************)
C10_OneWorkerState ==
    /\ Cardinality({r \in Runs : Started(r)}) <= 1
    /\ Cardinality(outOpen) <= 1
    /\ (\E r \in Runs : Started(r)) <=> (generate_button = "disabled")

C10_StartStep ==
    /\ nthreads' # nthreads =>
          /\ nthreads' = nthreads + 1
          /\ generate_button = "normal"
          /\ generate_button' = "disabled"
          /\ \A r \in Runs : ~Started(r)
          /\ worker'[nthreads'].pc = "start"
    /\ messagebox' # messagebox =>
          /\ worker' = worker
          /\ nthreads' = nthreads
          /\ generate_button = "normal"
          /\ generate_button' = "normal"

C10_OneWorker ==
    /\ []C10_OneWorkerState
    /\ [][C10_StartStep]_vars
    /\ (generate_button = "disabled") ~> (generate_button = "normal")

\* a second run is under way, started after the first one delivered its
\* summary and after a rejected click
C10_Witness ==
    /\ nthreads = 2
    /\ worker[1].pc = "done"
    /\ worker[2].pc = "loop"
    /\ generate_button = "disabled"
    /\ messagebox # ""
    /\ outOpen = {2}
====
